---- MODULE Spec2Model ----
(***************************************************************************)
(* The raw MPSC queue of twizzler-queue-raw (src/lib.rs): a header of      *)
(* atomic counters (head, waiters, bell, tail) and a circular buffer of    *)
(* QueueEntry slots.  Every sequentially-consistent atomic access of the   *)
(* code is one step of the thread that executes it.  The plain (non-atomic) *)
(* whole-entry write of submit is one step per field, in any order,        *)
(* because nothing in the code orders the fields of that write against the *)
(* other threads; the plain whole-entry read of receive is one step.       *)
(*                                                                         *)
(* A 32- or 64-bit word is the record [hi, lo]: lo is the low 31 bits      *)
(* (word & 0x7fffffff) and hi the bits from bit 31 upwards (word >> 31),   *)
(* so that bit 31 is hi % 2.                                               *)
(***************************************************************************)
EXTENDS Integers, Sequences, FiniteSets, TLC

\* ------------------------------------------------------------------ bounds
\* log2 of the capacity handed to RawQueueHdr::new
l2len == 1
\* number of submit calls (head fetch-adds) a run with one producer may start
MaxSubmits == 7
\* number of submit calls a run with two producers may start
MaxSubmitsMP == 4
\* spin budget of the wait loops (the code's 1000), scaled down
Attempts == 1

\* ------------------------------------------------------------------ words
Mask31 == 2147483647

W(hi, lo) == [hi |-> hi, lo |-> lo]

Zero == W(0, 0)

\* w & 0x7fffffff
Low31(w) == w.lo

\* (w & (1 << 31)) != 0
Bit31(w) == w.hi % 2 = 1

\* x + 1 in the low 31 bits
Inc31(x) == IF x = Mask31 THEN 0 ELSE x + 1

\* fetch_add(1) on an AtomicU32
AddU32(w) == IF w.lo = Mask31 THEN W((w.hi + 1) % 2, 0) ELSE W(w.hi, w.lo + 1)

\* fetch_sub(1) on an AtomicU32
SubU32(w) == IF w.lo = 0 THEN W((w.hi + 1) % 2, Mask31) ELSE W(w.hi, w.lo - 1)

\* fetch_add(1) on an AtomicU64
AddU64(w) == IF w.lo = Mask31 THEN W(w.hi + 1, 0) ELSE W(w.hi, w.lo + 1)

\* fetch_or(1 << 31)
SetBit31(w) == IF Bit31(w) THEN w ELSE W(w.hi + 1, w.lo)

\* fetch_and(!(1 << 31))
ClearBit31(w) == IF Bit31(w) THEN W(w.hi - 1, w.lo) ELSE w

\* ------------------------------------------------------------------ threads
Producers == {1, 2}

Fields == {"cmd_slot", "info", "data"}

BLOCK == "BLOCK"
NON_BLOCK == "NON_BLOCK"
SubmissionFlags == {BLOCK, NON_BLOCK}
ReceiveFlags == {BLOCK, NON_BLOCK}

VARIABLES
    head,       \* RawQueueHdr.head    (AtomicU32)
    waiters,    \* RawQueueHdr.waiters (AtomicU32)
    bell,       \* RawQueueHdr.bell    (AtomicU64)
    tail,       \* RawQueueHdr.tail    (AtomicU64), bit 31 = consumer waiting
    buf,        \* the buffer: slot index -> QueueEntry
    prod,       \* per producer thread: position in submit and its locals
    cons,       \* the consumer thread: position in receive and its locals; spur
                \* (also in prod) records that wait returned spuriously since
                \* the thread last tested its predicate successfully or parked
    nprod,      \* how many of the producer threads exist in this run
    nonblock,   \* whether the threads of this run pass NON_BLOCK at all
    hist,       \* history: the submit calls in the order of their head fetch-add
    received    \* history: what the receive calls returned Ok, in order

vars == <<head, waiters, bell, tail, buf, prod, cons, nprod, nonblock, hist, received>>

shared == <<head, waiters, bell, tail, buf>>

\* ------------------------------------------------------------------ header predicates
len == 2 ^ l2len

\* mutant: the fullness test is off by one (> where the code has >=)
is_full_gt(h, t) ==
    IF Low31(h) >= Low31(t) THEN Low31(h) - Low31(t) > len ELSE TRUE

is_full(h, t) ==
    \* (h & 0x7fffffff) as u64 - (t & 0x7fffffff) >= len; the u64 subtraction
    \* wraps to a huge value when the left side is the smaller one
    IF Low31(h) >= Low31(t) THEN Low31(h) - Low31(t) >= len ELSE TRUE

\* the u64 subtraction of is_full has a left side smaller than its right side
sub_overflows(h, t) == Low31(h) < Low31(t)

\* what a call of is_full can do: answer, or, where the subtraction overflows,
\* panic (a build with overflow checks) or answer with the wrapped difference
\* (a build without them)
is_full_outcomes(h, t) ==
    IF sub_overflows(h, t) THEN {"panic", IF is_full(h, t) THEN "full" ELSE "free"}
    ELSE {IF is_full(h, t) THEN "full" ELSE "free"}

\* mutant: the consumer does not compare bell with tail
is_empty_never(b, t) == FALSE

is_empty(b, t) == Low31(b) = Low31(t)

\* c is the cmd_slot word loaded from the slot
is_turn(t, c) == ((c.hi % 2) = 0) = (((t \div len) % 2) = 1)

\* mutant: the producer stamps with the polarity of the other revolution
get_turn_flipped(h) == (h \div len) % 2 = 1

\* h is the u32 returned by reserve_slot
get_turn(h) == (h \div len) % 2 = 0

\* the word submit stores with set_cmd_slot
stamp(h) == W(IF get_turn(h) THEN 1 ELSE 0, h)

\* get_buf: off & (len - 1)
slot(off) == off % len

\* QueueEntry::new
NewEntry(info, data) == [cmd_slot |-> Zero, info |-> info, data |-> data]

\* QueueEntry::default
DefaultEntry == NewEntry(0, 0)

\* ------------------------------------------------------------------ initial state
IdleProd ==
    [pc |-> "idle", flags |-> BLOCK, r |-> 0, h |-> Zero, t |-> Zero,
     waiter |-> FALSE, attempts |-> 0, towrite |-> {}, spur |-> FALSE]

IdleCons ==
    [pc |-> "idle", flags |-> BLOCK, t |-> 0, b |-> Zero, attempts |-> 0,
     item |-> DefaultEntry, res |-> "none", spur |-> FALSE]

InitQueue ==
    /\ head = Zero
    /\ waiters = Zero
    /\ bell = Zero
    /\ tail = Zero
    /\ buf = [s \in 0 .. len - 1 |-> DefaultEntry]
    /\ prod = [p \in Producers |-> IdleProd]
    /\ cons = IdleCons
    /\ hist = <<>>
    /\ received = <<>>

Init == InitQueue /\ nprod \in {1, 2} /\ nonblock \in BOOLEAN

\* one producer thread and the consumer thread
InitSPSC == InitQueue /\ nprod = 1 /\ nonblock \in BOOLEAN

\* two producer threads and the consumer thread, every call blocking
InitBlocking == InitQueue /\ nprod = 2 /\ nonblock = FALSE

\* one producer thread and the consumer thread, on a queue whose head, tail and
\* bell have counted 2^31 - N entries submitted and received, so that the next
\* N positions are the last ones before the 31-bit position wraps to 0
WrapStart == Mask31 - len + 1

InitWrap ==
    /\ head = W(0, WrapStart)
    /\ waiters = Zero
    /\ bell = W(0, WrapStart)
    /\ tail = W(0, WrapStart)
    /\ buf = [s \in 0 .. len - 1 |->
                [cmd_slot |-> stamp(WrapStart - len + s), info |-> 0, data |-> 0]]
    /\ prod = [p \in Producers |-> IdleProd]
    /\ cons = IdleCons
    /\ hist = <<>>
    /\ received = <<>>
    /\ nprod = 1
    /\ nonblock \in BOOLEAN

frame == UNCHANGED <<nprod, nonblock>>

SubmitBudget == IF nprod = 1 THEN MaxSubmits ELSE MaxSubmitsMP

\* ------------------------------------------------------------------ submit
\* the entry the n-th submit call of the run passes: tagged with its producer
ItemOf(p, n) == NewEntry(10 * p + n, 10 * (10 * p + n))

SubmitReturn(p, res) ==
    /\ prod' = [prod EXCEPT ![p] = IdleProd]
    /\ hist' = [hist EXCEPT ![prod[p].r].res = res]

\* submit entry and reserve_slot up to the head fetch_add
SubmitReserve(p, fl) ==
    /\ p <= nprod
    /\ fl = NON_BLOCK => nonblock
    /\ prod[p].pc = "idle"
    /\ Len(hist) < SubmitBudget
    /\ head' = AddU32(head)
    /\ hist' = Append(hist, [by |-> p, h |-> Low31(head),
                             item |-> ItemOf(p, Len(hist) + 1), res |-> "pending"])
    /\ prod' = [prod EXCEPT ![p] = [IdleProd EXCEPT !.pc = "rs_tail", !.flags = fl,
                                       !.r = Len(hist) + 1, !.h = head,
                                       !.attempts = Attempts]]
    /\ UNCHANGED <<waiters, bell, tail, buf, cons, received>>
    /\ frame

\* mutant: NON_BLOCK is looked at only after the producer has registered as a waiter
FullNext_waitfirst(fl, attempts, waiter) ==
    IF attempts # 0 THEN "rs_spin"
    ELSE IF ~waiter THEN "rs_inc"
    ELSE IF fl = NON_BLOCK THEN "ret_wouldblock"
    ELSE "rs_tail2"

\* mutant: the producer registers as a waiter on every turn of the loop
FullNext_reinc(fl, attempts, waiter) ==
    IF fl = NON_BLOCK THEN "ret_wouldblock"
    ELSE IF attempts # 0 THEN "rs_spin"
    ELSE "rs_inc"

\* where reserve_slot goes when the slot is still full at the top of the loop
FullNext(fl, attempts, waiter) ==
    IF fl = NON_BLOCK THEN "ret_wouldblock"
    ELSE IF attempts # 0 THEN "rs_spin"
    ELSE IF ~waiter THEN "rs_inc"
    ELSE "rs_tail2"

\* top of the loop of reserve_slot: load tail, test is_full
ReserveLoadTail(p) ==
    LET me == prod[p]
        nxt == FullNext(me.flags, me.attempts, me.waiter) IN
    /\ me.pc = "rs_tail"
    /\ \E o \in is_full_outcomes(me.h, tail) :
       IF o = "panic"
       THEN /\ prod' = [prod EXCEPT ![p].pc = "panicked"]
            /\ UNCHANGED hist
       ELSE IF o = "free"
       THEN /\ prod' = [prod EXCEPT ![p].pc = IF me.waiter THEN "rs_dec" ELSE "fill",
                                 ![p].towrite = IF me.waiter THEN {} ELSE Fields,
                                 ![p].spur = FALSE]
            /\ UNCHANGED hist
       ELSE IF nxt = "ret_wouldblock"
       THEN SubmitReturn(p, "WouldBlock")
       ELSE IF nxt = "rs_spin"
       THEN /\ prod' = [prod EXCEPT ![p].attempts = me.attempts - 1]
            /\ UNCHANGED hist
       ELSE /\ prod' = [prod EXCEPT ![p].pc = nxt]
            /\ UNCHANGED hist
    /\ UNCHANGED <<head, waiters, bell, tail, buf, cons, received>>
    /\ frame

\* inc_submit_waiting
ReserveIncWaiting(p) ==
    /\ prod[p].pc = "rs_inc"
    /\ waiters' = AddU32(waiters)
    /\ prod' = [prod EXCEPT ![p].waiter = TRUE, ![p].pc = "rs_tail2"]
    /\ UNCHANGED <<head, bell, tail, buf, cons, hist, received>>
    /\ frame

\* the second load of tail, before wait
ReserveReloadTail(p) ==
    /\ prod[p].pc = "rs_tail2"
    /\ \E o \in is_full_outcomes(prod[p].h, tail) :
          prod' = IF o = "panic" THEN [prod EXCEPT ![p].pc = "panicked"]
                  ELSE IF o = "full" THEN [prod EXCEPT ![p].t = tail, ![p].pc = "rs_wait"]
                  ELSE [prod EXCEPT ![p].pc = "rs_tail"]
    /\ UNCHANGED <<head, waiters, bell, tail, buf, cons, hist, received>>
    /\ frame

\* wait(&self.tail, t): returns at once when tail differs from t, parks otherwise
ReserveWait(p) ==
    /\ prod[p].pc = "rs_wait"
    /\ prod' = [prod EXCEPT ![p].t = Zero, ![p].spur = FALSE,
                            ![p].pc = IF tail # prod[p].t THEN "rs_tail"
                                      ELSE "rs_parked"]
    /\ UNCHANGED <<head, waiters, bell, tail, buf, cons, hist, received>>
    /\ frame

\* dec_submit_waiting
ReserveDecWaiting(p) ==
    /\ prod[p].pc = "rs_dec"
    /\ waiters' = SubU32(waiters)
    /\ prod' = [prod EXCEPT ![p].pc = "fill", ![p].towrite = Fields]
    /\ UNCHANGED <<head, bell, tail, buf, cons, hist, received>>
    /\ frame

\* *buf_item = item: the plain write of one field of the entry
SubmitWriteField(p, f) ==
    LET me == prod[p]
        s == slot(Low31(me.h)) IN
    /\ me.pc = "fill"
    /\ f \in me.towrite
    /\ buf' = [buf EXCEPT ![s][f] = hist[me.r].item[f]]
    /\ prod' = [prod EXCEPT ![p].towrite = me.towrite \ {f},
                            ![p].pc = IF me.towrite = {f} THEN "stamp" ELSE "fill"]
    /\ UNCHANGED <<head, waiters, bell, tail, cons, hist, received>>
    /\ frame

\* buf_item.set_cmd_slot(h | turn << 31)
SubmitStamp(p) ==
    LET me == prod[p]
        s == slot(Low31(me.h)) IN
    /\ me.pc = "stamp"
    /\ buf' = [buf EXCEPT ![s].cmd_slot = stamp(Low31(me.h))]
    /\ prod' = [prod EXCEPT ![p].pc = "ring_bell"]
    /\ UNCHANGED <<head, waiters, bell, tail, cons, hist, received>>
    /\ frame

\* ring: bell.fetch_add(1)
RingBell(p) ==
    /\ prod[p].pc = "ring_bell"
    /\ bell' = AddU64(bell)
    /\ prod' = [prod EXCEPT ![p].pc = "ring_chk"]
    /\ UNCHANGED <<head, waiters, tail, buf, cons, hist, received>>
    /\ frame

\* ring: consumer_waiting()
RingCheckConsumer(p) ==
    /\ prod[p].pc = "ring_chk"
    /\ IF Bit31(tail)
       THEN /\ prod' = [prod EXCEPT ![p].pc = "ring_cb"]
            /\ UNCHANGED hist
       ELSE SubmitReturn(p, "Ok")
    /\ UNCHANGED <<head, waiters, bell, tail, buf, cons, received>>
    /\ frame

\* ring(&self.bell): wakes the consumer if it is parked on bell
RingWakeConsumer(p) ==
    /\ prod[p].pc = "ring_cb"
    /\ cons' = IF cons.pc = "gn_parked" THEN [cons EXCEPT !.pc = "gn_bell"] ELSE cons
    /\ SubmitReturn(p, "Ok")
    /\ UNCHANGED <<head, waiters, bell, tail, buf, received>>
    /\ frame

\* ------------------------------------------------------------------ receive
ReceiveReturn(res) == [IdleCons EXCEPT !.res = res]

\* receive entry and get_next_ready up to the load of tail
ReceiveStart(fl) ==
    /\ fl = NON_BLOCK => nonblock
    /\ cons.pc = "idle"
    /\ cons' = [IdleCons EXCEPT !.pc = "gn_bell", !.flags = fl, !.t = Low31(tail),
                                !.attempts = Attempts]
    /\ UNCHANGED <<head, waiters, bell, tail, buf, prod, hist, received>>
    /\ frame

\* mutant: NON_BLOCK is looked at only once the spin budget is used up
NotReadyNext_spinfirst(fl, attempts) ==
    IF attempts # 0 THEN "gn_spin"
    ELSE IF fl = NON_BLOCK THEN "ret_wouldblock"
    ELSE "gn_setw"

\* where get_next_ready goes when the position is not ready at the top of the loop
NotReadyNext(fl, attempts) ==
    IF fl = NON_BLOCK THEN "ret_wouldblock"
    ELSE IF attempts # 0 THEN "gn_spin"
    ELSE "gn_setw"

NotReady ==
    LET nxt == NotReadyNext(cons.flags, cons.attempts) IN
    IF nxt = "ret_wouldblock" THEN ReceiveReturn("WouldBlock")
    ELSE IF nxt = "gn_spin" THEN [cons EXCEPT !.pc = "gn_bell", !.attempts = cons.attempts - 1]
    ELSE [cons EXCEPT !.pc = nxt]

\* mutant: the waiting bit is not cleared on the way out of the loop
ReadyNext_noclear(attempts) == "copy"

\* where get_next_ready goes when it leaves the loop
ReadyNext(attempts) == IF attempts = 0 THEN "gn_clear" ELSE "copy"

\* top of the loop of get_next_ready: load bell, test is_empty
ReadyLoadBell ==
    /\ cons.pc = "gn_bell"
    /\ cons' = IF is_empty(bell, W(0, cons.t))
               THEN NotReady
               ELSE [cons EXCEPT !.pc = "gn_slot"]
    /\ UNCHANGED <<head, waiters, bell, tail, buf, prod, hist, received>>
    /\ frame

\* top of the loop of get_next_ready: load cmd_slot, test is_turn
ReadyLoadSlot ==
    /\ cons.pc = "gn_slot"
    /\ cons' = IF is_turn(cons.t, buf[slot(cons.t)].cmd_slot)
               THEN [cons EXCEPT !.pc = ReadyNext(cons.attempts), !.spur = FALSE]
               ELSE NotReady
    /\ UNCHANGED <<head, waiters, bell, tail, buf, prod, hist, received>>
    /\ frame

\* consumer_set_waiting(true)
ReadySetWaiting ==
    /\ cons.pc = "gn_setw"
    /\ tail' = SetBit31(tail)
    /\ cons' = [cons EXCEPT !.pc = "gn_bell2"]
    /\ UNCHANGED <<head, waiters, bell, buf, prod, hist, received>>
    /\ frame

\* the second load of bell, before wait
ReadyReloadBell ==
    /\ cons.pc = "gn_bell2"
    /\ cons' = [cons EXCEPT !.b = bell,
                            !.pc = IF is_empty(bell, W(0, cons.t)) THEN "gn_wait"
                                   ELSE "gn_slot2"]
    /\ UNCHANGED <<head, waiters, bell, tail, buf, prod, hist, received>>
    /\ frame

\* the second load of cmd_slot, before wait
ReadyReloadSlot ==
    /\ cons.pc = "gn_slot2"
    /\ cons' = IF ~is_turn(cons.t, buf[slot(cons.t)].cmd_slot)
               THEN [cons EXCEPT !.pc = "gn_wait"]
               ELSE [cons EXCEPT !.pc = "gn_bell", !.b = Zero]
    /\ UNCHANGED <<head, waiters, bell, tail, buf, prod, hist, received>>
    /\ frame

\* wait(&self.bell, b): returns at once when bell differs from b, parks otherwise
ReadyWait ==
    /\ cons.pc = "gn_wait"
    /\ cons' = [cons EXCEPT !.b = Zero, !.spur = FALSE,
                            !.pc = IF bell # cons.b THEN "gn_bell" ELSE "gn_parked"]
    /\ UNCHANGED <<head, waiters, bell, tail, buf, prod, hist, received>>
    /\ frame

\* consumer_set_waiting(false)
ReadyClearWaiting ==
    /\ cons.pc = "gn_clear"
    /\ tail' = ClearBit31(tail)
    /\ cons' = [cons EXCEPT !.pc = "copy"]
    /\ UNCHANGED <<head, waiters, bell, buf, prod, hist, received>>
    /\ frame

\* let item = *buf_item: the plain read of the entry.  One step: the fields of
\* the concurrent plain write are written one by one in any order, so this read
\* already sees every mix of written and unwritten fields a torn read can see
ReceiveCopy ==
    /\ cons.pc = "copy"
    /\ cons' = [cons EXCEPT !.item = buf[slot(cons.t)], !.pc = "at_tail"]
    /\ UNCHANGED <<head, waiters, bell, tail, buf, prod, hist, received>>
    /\ frame

\* advance_tail: load tail, store (t + 1) & 0x7fffffff
AdvanceTail ==
    /\ cons.pc = "at_tail"
    /\ tail' = W(0, Inc31(Low31(tail)))
    /\ cons' = [cons EXCEPT !.pc = "at_chk"]
    /\ UNCHANGED <<head, waiters, bell, buf, prod, hist, received>>
    /\ frame

\* advance_tail: submitter_waiting()
AdvanceCheckWaiters ==
    /\ cons.pc = "at_chk"
    /\ IF waiters # Zero
       THEN /\ cons' = [cons EXCEPT !.pc = "at_ring"]
            /\ UNCHANGED received
       ELSE /\ cons' = ReceiveReturn("Ok")
            /\ received' = Append(received, [t |-> cons.t, item |-> cons.item])
    /\ UNCHANGED <<head, waiters, bell, tail, buf, prod, hist>>
    /\ frame

\* ring(&self.tail): wakes every producer parked on tail
AdvanceWakeProducers ==
    /\ cons.pc = "at_ring"
    /\ prod' = [p \in Producers |->
                  IF prod[p].pc = "rs_parked" THEN [prod[p] EXCEPT !.pc = "rs_tail"]
                  ELSE prod[p]]
    /\ cons' = ReceiveReturn("Ok")
    /\ received' = Append(received, [t |-> cons.t, item |-> cons.item])
    /\ UNCHANGED <<head, waiters, bell, tail, buf, hist>>
    /\ frame

\* ------------------------------------------------------------------ wait_cb
\* mutant: a thread that wait_cb returns to goes on without testing again
SpuriousReturn_norecheck ==
    /\ \/ /\ cons.pc = "gn_parked"
          /\ cons' = [cons EXCEPT !.pc = "gn_clear"]
          /\ UNCHANGED prod
       \/ /\ \E p \in Producers :
                /\ prod[p].pc = "rs_parked"
                /\ prod' = [prod EXCEPT ![p].pc = "rs_dec"]
          /\ UNCHANGED cons
    /\ UNCHANGED <<head, waiters, bell, tail, buf, hist, received>>
    /\ frame

\* a spurious return of wait_cb, which its contract allows at any time
SpuriousReturn ==
    /\ \/ /\ cons.pc = "gn_parked"
          /\ cons' = [cons EXCEPT !.pc = "gn_bell", !.spur = TRUE]
          /\ UNCHANGED prod
       \/ /\ \E p \in Producers :
                /\ prod[p].pc = "rs_parked"
                /\ prod' = [prod EXCEPT ![p].pc = "rs_tail", ![p].spur = TRUE]
          /\ UNCHANGED cons
    /\ UNCHANGED <<head, waiters, bell, tail, buf, hist, received>>
    /\ frame

\* ------------------------------------------------------------------ specification
ProducerStep(p) ==
    \/ ReserveLoadTail(p)
    \/ ReserveIncWaiting(p)
    \/ ReserveReloadTail(p)
    \/ ReserveWait(p)
    \/ ReserveDecWaiting(p)
    \/ \E f \in Fields : SubmitWriteField(p, f)
    \/ SubmitStamp(p)
    \/ RingBell(p)
    \/ RingCheckConsumer(p)
    \/ RingWakeConsumer(p)

ConsumerStep ==
    \/ ReadyLoadBell
    \/ ReadyLoadSlot
    \/ ReadySetWaiting
    \/ ReadyReloadBell
    \/ ReadyReloadSlot
    \/ ReadyWait
    \/ ReadyClearWaiting
    \/ ReceiveCopy
    \/ AdvanceTail
    \/ AdvanceCheckWaiters
    \/ AdvanceWakeProducers

Next ==
    \/ \E p \in Producers, fl \in SubmissionFlags : SubmitReserve(p, fl)
    \/ \E p \in Producers : ProducerStep(p)
    \/ \E fl \in ReceiveFlags : ReceiveStart(fl)
    \/ ConsumerStep
    \/ SpuriousReturn

Spec == Init /\ [][Next]_vars

SpecSPSC == InitSPSC /\ [][Next]_vars

SpecBlocking == InitBlocking /\ [][Next]_vars

SpecWrap == InitWrap /\ [][Next]_vars

\* Every thread that can take a step of the call it is in eventually takes it, and
\* the consumer keeps calling receive; a parked thread is resumed by ring_cb only
\* (spurious returns of wait_cb are possible but not promised).
Fairness ==
    /\ \A p \in Producers : WF_vars(ProducerStep(p))
    /\ WF_vars(ConsumerStep)
    /\ WF_vars(\E fl \in ReceiveFlags : ReceiveStart(fl))

FairSPSC == SpecSPSC /\ Fairness

\* ------------------------------------------------------------------ history
Calls == 1 .. Len(hist)

\* the submit call i is still running, at one of the places pcs
At(i, pcs) == \E p \in Producers : prod[p].r = i /\ prod[p].pc \in pcs

\* the producer of call i has executed its set_cmd_slot
Stamped(i) == hist[i].res = "Ok" \/ At(i, {"ring_bell", "ring_chk", "ring_cb"})

\* the producer of call i has begun to write its slot
Filling(i) == Stamped(i) \/ At(i, {"fill", "stamp"})

\* the entry of call i has been returned by a receive
Received(i) == \E j \in 1 .. Len(received) : received[j].t = hist[i].h

\* the submit calls that did not return WouldBlock, in reservation order
Kept == SelectSeq(hist, LAMBDA e : e.res # "WouldBlock")

OkCalls == {i \in Calls : hist[i].res = "Ok"}

\* ------------------------------------------------------------------ claims

\* C1: with one producer and one consumer, the info values receive returns are
\* the info values of the submit calls that did not fail, in submission order,
\* without a gap and without a duplicate (the received sequence is a prefix of
\* the submitted one).
C1_FifoDelivery ==
    /\ Len(received) <= Len(Kept)
    /\ \A j \in 1 .. Len(received) : received[j].item.info = Kept[j].item.info

\* C1 witness: deliveries that go into the second revolution of the buffer
C1_Witness == nprod = 1 /\ Len(received) > len

\* C5: as long as no receive has advanced tail, the submits that reserved the
\* first N positions neither fail nor wait, none beyond them returns Ok, and a
\* NON_BLOCK submit beyond them is at the test that returns WouldBlock.
C5_Backpressure ==
    Low31(tail) = 0 =>
        \A i \in Calls :
            /\ hist[i].h < len =>
                  /\ hist[i].res # "WouldBlock"
                  /\ ~At(i, {"rs_inc", "rs_tail2", "rs_wait", "rs_parked", "rs_dec"})
            /\ hist[i].h >= len =>
                  /\ hist[i].res # "Ok"
                  /\ \A p \in Producers :
                        prod[p].r = i /\ prod[p].flags = NON_BLOCK => prod[p].pc = "rs_tail"

\* C5 witness: N submits returned Ok, no receive, and one more returned WouldBlock
C5_Witness ==
    /\ Low31(tail) = 0
    /\ cons.pc = "idle"
    /\ Cardinality(OkCalls) = len
    /\ \E i \in Calls : hist[i].res = "WouldBlock"

\* the turn bit of the slot at the consumer's position is not the one the
\* producer of that position stamps
NotStampedFor(t) == buf[slot(t)].cmd_slot.hi # stamp(t).hi

\* C6: every step of a NON_BLOCK receive that finds its position not ready (bell
\* equals tail, or the slot's turn bit is not the one of this revolution) returns
\* WouldBlock, and no step of such a call up to there changes head, tail, bell,
\* waiters or a slot.
C6_NonBlockReceive ==
    [][ /\ (cons.pc = "idle" /\ cons'.pc # "idle" /\ cons'.flags = NON_BLOCK)
            => UNCHANGED shared
        /\ (cons.pc \in {"gn_bell", "gn_slot"} /\ cons.flags = NON_BLOCK /\ cons' # cons)
            => /\ UNCHANGED shared
               /\ (cons.pc = "gn_bell" /\ Low31(bell) = cons.t)
                    => (cons'.pc = "idle" /\ cons'.res = "WouldBlock")
               /\ (cons.pc = "gn_slot" /\ NotStampedFor(cons.t))
                    => (cons'.pc = "idle" /\ cons'.res = "WouldBlock")
               /\ cons'.pc \in {"idle", "gn_slot", "copy"}
      ]_vars

\* C6 witness: a receive returned an entry and the next, NON_BLOCK, one WouldBlock
C6_Witness == cons.res = "WouldBlock" /\ Len(received) >= 1 /\ Low31(bell) = Low31(tail)

SubmittedAt(t) == {hist[i].item : i \in {k \in Calls : hist[k].h = t}}

\* C2: with two producers in blocking submit and the consumer in blocking
\* receive, every received entry is a submitted one, no entry is received twice,
\* and the received entries of each producer are in that producer's order.
C2_PerProducerFifo ==
    /\ Len(received) <= Len(hist)
    /\ \A j \in 1 .. Len(received) :
          \E i \in Calls : received[j].item.info = hist[i].item.info
    /\ \A j, k \in 1 .. Len(received) :
          j # k => received[j].item.info # received[k].item.info
    /\ \A p \in Producers :
          LET mine == SelectSeq(hist, LAMBDA e : e.by = p)
              got == SelectSeq(received, LAMBDA e : e.item.info \div 10 = p) IN
          /\ Len(got) <= Len(mine)
          /\ \A j \in 1 .. Len(got) : got[j].item.info = mine[j].item.info

\* C3: the j-th successful receive is for position j - 1 and returns the info
\* of the producer that reserved this position, and the consumer takes a
\* position only when its producer has stamped it.
C3_ReservationOrder ==
    /\ \A j \in 1 .. Len(received) :
          /\ received[j].t = j - 1
          /\ \A e \in SubmittedAt(received[j].t) : received[j].item.info = e.info
    /\ cons.pc \in {"gn_clear", "copy", "at_tail"}
          => \E i \in Calls : hist[i].h = cons.t /\ Stamped(i)

\* C4: every received entry has the info and the data of the entry passed to
\* the submit call that reserved its position.
C4_RoundTrip ==
    \A j \in 1 .. Len(received) :
        \E e \in SubmittedAt(received[j].t) :
            received[j].item.info = e.info /\ received[j].item.data = e.data

\* C7: once a NON_BLOCK submit has returned WouldBlock, every entry whose submit
\* returned Ok is still eventually received.
C7_Recoverable ==
    \A i \in 1 .. MaxSubmits :
        (/\ i \in Calls
         /\ hist[i].res = "Ok"
         /\ \E k \in Calls : hist[k].res = "WouldBlock")
        ~> (i \in Calls /\ Received(i))

\* C8: a consumer inside a blocking receive, with every earlier entry received,
\* eventually returns the entry of a submit that has completed.
C8_ConsumerWakeup ==
    \A i \in 1 .. MaxSubmits :
        (/\ cons.pc # "idle"
         /\ cons.flags = BLOCK
         /\ i \in Calls
         /\ hist[i].res = "Ok"
         /\ ~Received(i)
         /\ \A k \in Calls : (k < i /\ hist[k].res = "Ok") => Received(k))
        ~> (i \in Calls /\ Received(i))

\* the blocking submit call i finds the queue full
Blocked(i) ==
    /\ i \in Calls
    /\ \E p \in Producers :
          /\ prod[p].r = i
          /\ prod[p].flags = BLOCK
          /\ prod[p].pc \in {"rs_tail", "rs_inc", "rs_tail2", "rs_wait", "rs_parked"}
    /\ is_full(W(0, hist[i].h), tail)

\* C9: a producer inside a blocking submit on a full queue returns Ok once the
\* consumer has completed one more receive.
C9_ProducerWakeup ==
    \A i \in 1 .. MaxSubmits, v \in 0 .. MaxSubmits :
        []((Blocked(i) /\ Low31(tail) = v)
            => []((Low31(tail) = v + 1) => <>(i \in Calls /\ hist[i].res = "Ok")))

\* the submit calls that are writing their slot (plain write or stamp not yet done)
Writing == {i \in Calls : At(i, {"fill", "stamp"})}

\* C11: when the consumer has accepted position t and is about to copy it, the
\* producer that reserved t has executed its cmd_slot stamp; no receive accepts
\* a slot whose producer is between its whole-entry write and its stamp.
C11_StampBeforeAccept ==
    cons.pc \in {"gn_clear", "copy"} =>
        /\ \E i \in Calls : hist[i].h = cons.t /\ Stamped(i)
        /\ ~\E i \in Writing : hist[i].h = cons.t

\* C12: a producer writes the slot of its position k only when tail is past
\* k - N, no two producers write the same slot at the same time, and no
\* producer writes the slot the consumer is copying.
C12_NoOverwrite ==
    /\ \A i \in Writing : hist[i].h - len < Low31(tail)
    /\ \A i, k \in Writing : i # k => slot(hist[i].h) # slot(hist[k].h)
    /\ cons.pc = "copy" => \A i \in Writing : slot(hist[i].h) # slot(cons.t)

\* a - b in the low 31 bits (modulo 2^31)
Dist31(a, b) == IF a >= b THEN a - b ELSE (Mask31 - b) + a + 1

\* the submit calls that are inside reserve_slot and have not obtained their slot
Reserving == {i \in Calls : At(i, {"rs_tail", "rs_inc", "rs_tail2", "rs_wait", "rs_parked"})}

\* the submit calls that returned WouldBlock: their positions stay reserved
Refused == {i \in Calls : hist[i].res = "WouldBlock"}

\* C13 as stated: head - tail, in the low 31 bits, is at most N.
C13_HeadTailBound == Dist31(Low31(head), Low31(tail)) <= len

\* C13 amended: head - tail, in the low 31 bits, is at most N plus the number
\* of submit calls that took a position with the head fetch-add and did not
\* obtain its slot (still waiting in reserve_slot, or returned WouldBlock).
C13_ReservedBound ==
    Dist31(Low31(head), Low31(tail)) <= len + Cardinality(Reserving) + Cardinality(Refused)

\* C13 witness: head is further than N ahead of tail, by exactly one waiting
\* blocking call and one call that returned WouldBlock
C13_Witness ==
    /\ Dist31(Low31(head), Low31(tail)) = len + 2
    /\ Cardinality(Refused) = 1
    /\ \E i \in Reserving : \E p \in Producers : prod[p].r = i /\ prod[p].pc = "rs_parked"

\* the producer of call i has rung the bell for its entry
Published(i) == hist[i].res = "Ok" \/ At(i, {"ring_chk", "ring_cb"})

\* C14: bell is never behind tail (low 31 bits), and bell equals tail exactly
\* when no entry is published (stamped, bell rung) and not yet consumed.
C14_BellTail ==
    /\ Low31(bell) >= Low31(tail)
    /\ (Low31(bell) = Low31(tail))
          <=> ~\E i \in Calls : Published(i) /\ hist[i].h >= Low31(tail)

\* an entry is published and the consumer has not advanced tail past it
PublishedUnconsumed == \E i \in Calls : Published(i) /\ hist[i].h >= Low31(tail)

\* C14 amended: bell is never behind tail (low 31 bits); whenever bell differs
\* from tail some published entry is not yet consumed; and with one producer
\* bell equals tail only when no published entry is unconsumed.
C14_BellCounts ==
    /\ Low31(bell) >= Low31(tail)
    /\ Low31(bell) # Low31(tail) => PublishedUnconsumed
    /\ (nprod = 1 /\ Low31(bell) = Low31(tail)) => ~PublishedUnconsumed

\* C14 witness: with two producers, after some receives, bell is ahead of tail
\* while one producer has stamped its slot and not yet rung
C14_Witness ==
    /\ nprod = 2
    /\ Low31(tail) > 0
    /\ Low31(bell) > Low31(tail)
    /\ \E i \in Calls : At(i, {"ring_bell"})

\* the places of receive between consumer_set_waiting(true) and
\* consumer_set_waiting(false): the re-check before wait, wait itself, and the
\* turn of the loop after wait has returned
WaitingSection ==
    {"gn_bell2", "gn_slot2", "gn_wait", "gn_parked", "gn_bell", "gn_slot", "gn_setw",
     "gn_clear"}

\* C15 as stated: bit 31 of tail is set only while the consumer is inside
\* wait_cb; it is clear when the consumer copies or advances tail and after
\* every return of receive.
C15_WaitingBitParked ==
    /\ Bit31(tail) => cons.pc \in {"gn_wait", "gn_parked"}
    /\ cons.pc \in {"copy", "at_tail", "at_chk", "at_ring", "idle"} => ~Bit31(tail)

\* C15 amended: bit 31 of tail is set only while a blocking receive that has
\* used up its spin budget is between consumer_set_waiting(true) and
\* consumer_set_waiting(false); it is clear when the consumer copies or
\* advances tail and after every return of receive, and tail carries no other
\* bit above bit 30.
C15_WaitingBit ==
    /\ tail.hi \in {0, 1}
    /\ Bit31(tail) =>
          /\ cons.pc \in WaitingSection
          /\ cons.flags = BLOCK
          /\ cons.attempts = 0
    /\ cons.pc \in {"gn_bell2", "gn_slot2", "gn_wait", "gn_parked"} => Bit31(tail)
    /\ cons.pc \in {"copy", "at_tail", "at_chk", "at_ring", "idle"} => ~Bit31(tail)

\* C15 witness: the consumer has left the waiting section and is about to copy,
\* the bit is clear again, and a producer that saw the bit set is still about
\* to call ring_cb
C15_Witness ==
    /\ cons.pc = "copy"
    /\ cons.attempts = 0
    /\ ~Bit31(tail)
    /\ \E p \in Producers : prod[p].pc = "ring_cb"

\* the step of producer p is its set_cmd_slot
StampStep(p) == prod[p].pc = "stamp" /\ prod'[p].pc = "ring_bell"

\* C16 as stated: the word submit stores for position k has k in its low 31
\* bits and (k / N) mod 2 in bit 31: 0 on even revolutions, 1 on odd ones.
C16_StampAsStated ==
    [][\A p \in Producers :
          StampStep(p) =>
              LET k == hist[prod[p].r].h IN
              buf'[slot(k)].cmd_slot = W((k \div len) % 2, k)
      ]_vars

\* C16 amended: the word submit stores for position k has k in its low 31 bits
\* and 1 - (k / N) mod 2 in bit 31: 1 on even revolutions, 0 on odd ones.
C16_StampPolarity ==
    [][\A p \in Producers :
          StampStep(p) =>
              LET k == hist[prod[p].r].h IN
              buf'[slot(k)].cmd_slot = W(1 - ((k \div len) % 2), k)
      ]_vars

\* C16 witness: the buffer holds a stamp of an even revolution and a stamp of
\* an odd revolution
C16_Witness ==
    /\ \E s \in DOMAIN buf : buf[s].cmd_slot.hi = 1 /\ (buf[s].cmd_slot.lo \div len) % 2 = 0
    /\ \E s \in DOMAIN buf : buf[s].cmd_slot.hi = 0 /\ (buf[s].cmd_slot.lo \div len) % 2 = 1

\* the places of submit inside reserve_slot
InReserve == {"rs_tail", "rs_inc", "rs_tail2", "rs_wait", "rs_parked", "rs_dec"}

\* C17: the call of a NON_BLOCK submit adds exactly 1 to head and changes
\* nothing else; its return of WouldBlock comes straight from the first test of
\* is_full and changes neither head (no rewind) nor tail, bell, waiters or a
\* slot; and no step of any thread ever takes head back.
C17_WouldBlockFrame ==
    [][ /\ \A p \in Producers :
              /\ (prod[p].pc = "idle" /\ prod'[p].pc # "idle" /\ prod'[p].flags = NON_BLOCK)
                    => /\ Low31(head') = Low31(head) + 1
                       /\ UNCHANGED <<waiters, bell, tail, buf>>
              /\ (prod[p].pc # "idle" /\ hist'[prod[p].r].res = "WouldBlock")
                    => /\ prod[p].flags = NON_BLOCK
                       /\ prod[p].pc = "rs_tail"
                       /\ ~prod[p].waiter
                       /\ prod[p].attempts = Attempts
                       /\ UNCHANGED shared
                       /\ Low31(head) >= hist[prod[p].r].h + 1
              /\ (prod[p].pc \in InReserve /\ prod[p].flags = NON_BLOCK /\ prod'[p] # prod[p])
                    => UNCHANGED shared
        /\ Low31(head') >= Low31(head)
      ]_vars

\* C17 witness: a NON_BLOCK submit has returned WouldBlock, no other call has
\* been made since, and head is one past the position it reserved
C17_Witness ==
    /\ Len(hist) > len
    /\ hist[Len(hist)].res = "WouldBlock"
    /\ Low31(head) = hist[Len(hist)].h + 1
    /\ Low31(head) - Low31(tail) > len

\* the producers that have executed inc_submit_waiting and not yet
\* dec_submit_waiting
Registered ==
    {p \in Producers :
        prod[p].waiter /\ prod[p].pc \in {"rs_tail", "rs_tail2", "rs_wait", "rs_parked", "rs_dec"}}

\* C18: waiters is the number of producers between their inc_submit_waiting
\* and their dec_submit_waiting; it is never negative (no borrow into bit 31),
\* a NON_BLOCK submit is never among them, a producer that obtained its slot
\* has taken its increment back, and waiters is 0 when no submit is running.
C18_WaitersCount ==
    /\ waiters = W(0, Cardinality(Registered))
    /\ \A p \in Producers :
          /\ prod[p].flags = NON_BLOCK => ~prod[p].waiter
          /\ prod[p].pc = "rs_inc" => ~prod[p].waiter
          /\ prod[p].pc = "rs_dec" => prod[p].waiter
    /\ (\A p \in Producers : prod[p].pc = "idle") => waiters = Zero

\* C18 witness: a producer that had registered has obtained its slot and the
\* other producer is still registered and parked
C18_Witness ==
    /\ waiters = W(0, 1)
    /\ \E p, q \in Producers :
          /\ prod[p].waiter /\ prod[p].pc = "fill"
          /\ prod[q].waiter /\ prod[q].pc = "rs_parked"

\* C19: with wait_cb free to return at any time, a producer leaves the loop of
\* reserve_slot only in a step in which fewer than N positions lie between tail
\* and its own, and the consumer leaves the loop of get_next_ready only in a
\* step in which bell differs from tail and the slot at tail carries the turn
\* bit of the current revolution.
C19_SpuriousHarmless ==
    [][ /\ \A p \in Producers :
              (/\ prod[p].pc \in {"rs_tail", "rs_inc", "rs_tail2", "rs_wait", "rs_parked"}
               /\ prod'[p].pc \in {"rs_dec", "fill"})
                  => Dist31(Low31(prod[p].h), Low31(tail)) < len
        /\ (/\ cons.pc \in {"gn_bell", "gn_slot", "gn_setw", "gn_bell2", "gn_slot2",
                           "gn_wait", "gn_parked"}
            /\ cons'.pc \in {"gn_clear", "copy"})
              => /\ Low31(bell) # Low31(tail)
                 /\ ~NotStampedFor(Low31(tail))
      ]_vars

\* C19 witness: wait_cb has returned spuriously to the consumer and to a
\* producer; each has tested its predicate again, found it false, and is about
\* to wait once more
C19_Witness ==
    /\ cons.pc = "gn_wait" /\ cons.spur
    /\ \E p \in Producers : prod[p].pc = "rs_wait" /\ prod[p].spur

\* C20: whenever a producer is about to test is_full with its position h and
\* the current tail, the call does not overflow and reports full exactly when
\* h is at least N positions ahead of tail in 31-bit (modular) arithmetic; no
\* submit ends in the overflow panic.
C20_WrapSafeFull ==
    \A p \in Producers :
        /\ prod[p].pc # "panicked"
        /\ prod[p].pc \in {"rs_tail", "rs_tail2"} =>
              is_full_outcomes(prod[p].h, tail) =
                  {IF Dist31(Low31(prod[p].h), Low31(tail)) >= len THEN "full" ELSE "free"}

====
